---------------------------- MODULE Spec2Model ----------------------------
(***************************************************************************)
(* Chronos: the Session Orchestrator (App), the Inference Client           *)
(* (parseInput) and the Audio Capture Unit (AudioRecorder) as one state     *)
(* machine.  One step of the machine is one browser task: a user event, a   *)
(* promise settling together with the continuations it resumes, a timer     *)
(* callback, or a recorder / file-reader event.                             *)
(***************************************************************************)
EXTENDS Integers, Sequences, FiniteSets, TLC

(***************************************************************************)
(* Bounds of the model.                                                     *)
(***************************************************************************)
MaxCalls == 2       \* processInput invocations in one run
MaxNow == 1         \* clock readings are 0..MaxNow
MaxStarts == 1      \* startRecording invocations in one run

(***************************************************************************)
(* Values.                                                                  *)
(***************************************************************************)
IDLE == "IDLE"
RECORDING == "RECORDING"
PROCESSING == "PROCESSING"
SUCCESS == "SUCCESS"
ERROR == "ERROR"
ParseStatus == {IDLE, RECORDING, PROCESSING, SUCCESS, ERROR}

Null == "null"
ErrorText == "Failed to process input. Please try again."
Placeholder == <<"(Audio Transcription handled by AI)">>
WebmType == "audio/webm"
\* the types a platform's MediaRecorder may record in
RecorderTypes == {"audio/webm", "audio/mp4"}
\* ReminderCard has not rendered
NotRendered == [badge |-> "", formattedDate |-> ""]

\* Text is a sequence of characters, so that trimming is computed; the
\* placeholder is a text of one symbol.
EmptyText == << >>
TextInputs == { << >>, <<" ">>, <<" ", "a", " ">> }

IsSpace(c) == c = " "

RECURSIVE TrimStart(_)
TrimStart(s) ==
    IF s = << >> THEN s
    ELSE IF IsSpace(Head(s)) THEN TrimStart(Tail(s)) ELSE s

RECURSIVE TrimEnd(_)
TrimEnd(s) ==
    IF s = << >> THEN s
    ELSE IF IsSpace(s[Len(s)]) THEN TrimEnd(SubSeq(s, 1, Len(s) - 1)) ELSE s

\* String.prototype.trim
trim(s) == TrimEnd(TrimStart(s))

\* the two shapes of processInput's argument
TextInput(t) == [kind |-> "string", text |-> t, data |-> 0, mimeType |-> ""]
AudioInput(d, m) == [kind |-> "object", text |-> EmptyText, data |-> d, mimeType |-> m]

(***************************************************************************)
(* The provider's answers: a transport failure, or a response whose text is *)
(* empty, is not JSON, or is a JSON object (a function from field names).   *)
(***************************************************************************)
GoodObject ==
    [reminder_content |-> "call mom", scheduled_time |-> "2024-01-02T17:00:00Z",
     confidence_score |-> 90]
PartialObject == [reminder_content |-> "call mom"]

Responses ==
    { [kind |-> "transportError", obj |-> << >>],
      [kind |-> "empty", obj |-> << >>],
      [kind |-> "notJSON", obj |-> << >>],
      [kind |-> "json", obj |-> GoodObject],
      [kind |-> "json", obj |-> PartialObject] }

\* the responses that keep to the response schema of the request
Conforming == { resp \in Responses : resp.kind = "json" => DOMAIN resp.obj = DOMAIN GoodObject }

\* parseInput threw after the request went out; sent tells whether
\* generateContent was called
Thrown == [ok |-> FALSE, data |-> << >>, rawText |-> EmptyText, sent |-> TRUE]

\* parseInput threw at its API key check, before the client was built
MissingCredential == [ok |-> FALSE, data |-> << >>, rawText |-> EmptyText, sent |-> FALSE]

\* a slip: rawText taken from the trimmed text
parseInputTrimmed(input, apiKey, resp) ==
    IF ~apiKey THEN MissingCredential
    ELSE IF resp.kind \in {"transportError", "empty", "notJSON"} THEN Thrown
    ELSE [ok |-> TRUE, data |-> resp.obj,
          rawText |-> IF input.kind = "string" THEN trim(input.text) ELSE Placeholder,
          sent |-> TRUE]

\* a slip: the API key is looked at only once the provider has answered
parseInputKeyCheckedLate(input, apiKey, resp) ==
    IF resp.kind \in {"transportError", "empty", "notJSON"} THEN Thrown
    ELSE IF ~apiKey THEN Thrown
    ELSE [ok |-> TRUE, data |-> resp.obj,
          rawText |-> IF input.kind = "string" THEN input.text ELSE Placeholder,
          sent |-> TRUE]

\* parseInput, from the API key read when it is called and the provider's answer
parseInput(input, apiKey, resp) ==
    IF ~apiKey THEN MissingCredential
    ELSE IF resp.kind = "transportError" THEN Thrown
    ELSE IF resp.kind = "empty" THEN Thrown
    ELSE IF resp.kind = "notJSON" THEN Thrown
    ELSE [ok |-> TRUE, data |-> resp.obj,
          rawText |-> IF input.kind = "string" THEN input.text ELSE Placeholder,
          sent |-> TRUE]

VARIABLES
    status,         \* App: useState<ParseStatus>
    textInput,      \* App: useState("")
    history,        \* App: useState<HistoryItem[]>, newest first
    errorMsg,       \* App: useState<string | null>
    calls,          \* the processInput invocations awaiting parseInput, oldest first
    nCalls,         \* how many processInput invocations there have been
    okOrder,        \* for each successful call, newest first: its number among the invocations
    overlapped,     \* whether a call was ever started while another was in flight
    timers,         \* pending setTimeout resets, oldest first: for each, whether the
                    \* status its closure captured is RECORDING
    now,            \* the clock read by Date.now() and new Date()
    hasRandomUUID,  \* whether crypto.randomUUID exists on this platform
    apiKey,         \* whether process.env.API_KEY is set
    schemaKept,     \* whether the provider keeps to the response schema it is given
    isRecording,    \* AudioRecorder: useState(false)
    recs,           \* every startRecording invocation, in order of invocation
    mediaRecorderRef, \* AudioRecorder: the invocation whose MediaRecorder the ref holds, or 0
    audioContextRef,  \* AudioRecorder: the invocation whose AudioContext the ref holds, or 0
    animationFrameRef, \* AudioRecorder: the invocation whose draw loop last stored a frame id, or 0
    timerRef,       \* AudioRecorder: the invocation whose interval id the ref holds, or 0
    chunksRef,      \* AudioRecorder: the chunk list the ref holds
    emitted,        \* every non-empty chunk a recorder has delivered so far
    mounted,        \* whether the component tree is mounted
    recorderType,   \* the mimeType this platform's MediaRecorder records in
    startsLeft,     \* how many more startRecording invocations this run may hold
    card,           \* ReminderCard: the data prop
    rendered,       \* ReminderCard: what the last render showed for card
    returnedEarly   \* whether the last step was handleTextSubmit returning at its guard

appVars == <<status, textInput, history, errorMsg, calls, timers, nCalls, okOrder, overlapped>>
recVars == <<isRecording, recs, mediaRecorderRef, audioContextRef, animationFrameRef, timerRef,
             chunksRef, emitted>>
cardVars == <<card, rendered>>
platformVars == <<hasRandomUUID, schemaKept, recorderType>>
envVars == <<now, apiKey, platformVars, cardVars, mounted, startsLeft>>
vars == <<status, textInput, history, errorMsg, calls, timers, nCalls, okOrder, overlapped,
          now, hasRandomUUID, apiKey, schemaKept,
          isRecording, recs, mediaRecorderRef, audioContextRef, animationFrameRef, timerRef,
          chunksRef, emitted, mounted, recorderType, startsLeft, card, rendered, returnedEarly>>

InFlight == 1..Len(calls)
NumOk == Len(okOrder)

\* sequence s without its i-th element
Remove(s, i) == SubSeq(s, 1, i - 1) \o SubSeq(s, i + 1, Len(s))

\* A call whose parseInput threw before its first await: its catch block and
\* what follows run as microtasks, before any other task.
MicrotaskPending == \E i \in InFlight : ~calls[i].key

\* recordings that have not yet handed their audio to the orchestrator
Unfinished == { k \in 1..Len(recs) : recs[k].phase \in {"asking", "recording", "stopping", "reading"} }

\* room for one more invocation of processInput, every recording under way counted
RoomForCall == nCalls + Cardinality(Unfinished) < MaxCalls

InitApp ==
    /\ isRecording = FALSE
    /\ recs = << >>
    /\ mediaRecorderRef = 0
    /\ audioContextRef = 0
    /\ animationFrameRef = 0
    /\ timerRef = 0
    /\ chunksRef = << >>
    /\ emitted = {}
    /\ mounted = TRUE
    /\ status = IDLE
    /\ textInput = EmptyText
    /\ history = << >>
    /\ errorMsg = Null
    /\ calls = << >>
    /\ nCalls = 0
    /\ okOrder = << >>
    /\ overlapped = FALSE
    /\ timers = << >>
    /\ now = 0
    /\ hasRandomUUID \in BOOLEAN
    /\ apiKey \in BOOLEAN
    /\ returnedEarly = FALSE

\* no card under study: the ReminderCard variables stay as they are
NoCard == card = GoodObject /\ rendered = NotRendered

\* the provider as documented (the response schema is enforced), a platform
\* whose recorder produces audio/webm
Init ==
    /\ InitApp
    /\ schemaKept = TRUE
    /\ recorderType = WebmType
    /\ startsLeft = MaxStarts
    /\ NoCard

\* a provider that may answer with any body
InitAnyBody ==
    /\ InitApp
    /\ schemaKept = FALSE
    /\ recorderType = WebmType
    /\ startsLeft = MaxStarts
    /\ NoCard

\* any platform recorder, and a run long enough for a second recording
InitRecorder ==
    /\ InitApp
    /\ schemaKept = TRUE
    /\ recorderType \in RecorderTypes
    /\ startsLeft = MaxStarts + 1
    /\ NoCard

\* generateId
generateId(k) ==
    IF hasRandomUUID THEN [from |-> "randomUUID", n |-> k]
    ELSE [from |-> "Date.now", n |-> now]

\* processInput up to its await: the two state updates and the call of parseInput
processInput(input, cap) ==
    /\ status' = PROCESSING
    /\ errorMsg' = Null
    /\ calls' = Append(calls, [input |-> input, cap |-> cap, key |-> apiKey, no |-> nCalls + 1])
    /\ nCalls' = nCalls + 1
    /\ overlapped' = (overlapped \/ calls # << >>)
    /\ UNCHANGED <<history, timers, okOrder>>

\* a slip: the guard compares the text with "" and does not trim it
handleTextSubmitNoTrim ==
    IF textInput = EmptyText
    THEN UNCHANGED appVars
    ELSE processInput(TextInput(textInput), status = RECORDING) /\ UNCHANGED textInput

\* handleTextSubmit up to its await
handleTextSubmit ==
    IF trim(textInput) = EmptyText
    THEN UNCHANGED appVars
    ELSE processInput(TextInput(textInput), status = RECORDING) /\ UNCHANGED textInput

\* the item processInput builds from parseInput's result
NewItem(r) ==
    [id |-> generateId(NumOk + 1), createdAt |-> now, originalInput |-> r.rawText] @@ r.data

\* a slip: the new item is put at the end
Appended(prev, newItem) == Append(prev, newItem)

\* a slip: the new item replaces what there was
Replaced(prev, newItem) == <<newItem>>

\* the updater given to setHistory
Prepended(prev, newItem) == <<newItem>> \o prev

\* processInput's try block after the await, for call c and parseInput's result r
TryBlock(c, r) ==
    /\ history' = Prepended(history, NewItem(r))
    /\ status' = SUCCESS
    /\ errorMsg' = errorMsg
    /\ okOrder' = <<c.no>> \o okOrder

\* a slip: the failure is reported but status goes straight back to IDLE
CatchBlockToIdle ==
    /\ status' = IDLE
    /\ errorMsg' = ErrorText
    /\ UNCHANGED <<history, okOrder>>

\* a slip: the failure is logged and no message is set
CatchBlockNoMessage ==
    /\ status' = ERROR
    /\ UNCHANGED <<errorMsg, history, okOrder>>

\* processInput's catch block
CatchBlock ==
    /\ status' = ERROR
    /\ errorMsg' = ErrorText
    /\ UNCHANGED <<history, okOrder>>

\* processInput's finally block: the reset is scheduled
FinallyBlock(c) ==
    timers' = Append(timers, c.cap)

\* processInput from the await on, for call i and the provider's answer resp,
\* followed by the rest of handleTextSubmit when that is the caller
Settle(i, resp) ==
    LET c == calls[i]
        r == parseInput(c.input, c.key, resp)
    IN  /\ IF r.ok THEN TryBlock(c, r) ELSE CatchBlock
        /\ FinallyBlock(c)
        /\ calls' = Remove(calls, i)
        /\ UNCHANGED <<nCalls, overlapped>>
        /\ textInput' = IF c.input.kind = "string" THEN EmptyText ELSE textInput

\* a slip: the reset is skipped while a call is in flight
ResetCallbackUnlessInFlight(capturedRecording) ==
    status' = IF ~capturedRecording /\ calls = << >> THEN IDLE ELSE status

\* a slip: the test on the captured status is inverted
ResetCallbackInverted(capturedRecording) ==
    status' = IF capturedRecording THEN IDLE ELSE status

\* the callback given to setTimeout
ResetCallback(capturedRecording) ==
    status' = IF ~capturedRecording THEN IDLE ELSE status

(***************************************************************************)
(* Steps.                                                                   *)
(***************************************************************************)
\* onChange of the text field; the field is disabled while PROCESSING
ChangeText ==
    /\ ~MicrotaskPending
    /\ mounted
    /\ status # PROCESSING
    /\ \E t \in TextInputs : t # textInput /\ textInput' = t
    /\ returnedEarly' = FALSE
    /\ UNCHANGED <<status, history, errorMsg, calls, timers, nCalls, okOrder, overlapped,
                   envVars, recVars>>

\* a slip: the submit control is disabled for blank text only
SubmitEnabledAnyStatus == trim(textInput) # EmptyText

\* the submit control: disabled for blank text and while PROCESSING
SubmitEnabled == trim(textInput) # EmptyText /\ status # PROCESSING

SubmitText ==
    /\ ~MicrotaskPending
    /\ mounted
    /\ SubmitEnabled
    /\ RoomForCall
    /\ handleTextSubmit
    /\ returnedEarly' = FALSE
    /\ UNCHANGED <<envVars, recVars>>

\* a submit event that reaches the handler with blank text, in any state
SubmitBlank ==
    /\ ~MicrotaskPending
    /\ mounted
    /\ trim(textInput) = EmptyText
    /\ handleTextSubmit
    /\ returnedEarly' = TRUE
    /\ UNCHANGED <<envVars, recVars>>

\* parseInput's promise settles
CallSettles ==
    /\ \E i \in InFlight :
          /\ MicrotaskPending => ~calls[i].key
          /\ \E resp \in (IF schemaKept THEN Conforming ELSE Responses) : Settle(i, resp)
    /\ returnedEarly' = FALSE
    /\ UNCHANGED <<envVars, recVars>>

\* the oldest pending reset fires
ResetFires ==
    /\ ~MicrotaskPending
    /\ timers # << >>
    /\ ResetCallback(Head(timers))
    /\ timers' = Tail(timers)
    /\ returnedEarly' = FALSE
    /\ UNCHANGED <<textInput, history, errorMsg, calls, nCalls, okOrder, overlapped,
                   envVars, recVars>>

\* time passes
Tick ==
    /\ ~MicrotaskPending
    /\ now < MaxNow
    /\ now' = now + 1
    /\ returnedEarly' = FALSE
    /\ UNCHANGED <<appVars, apiKey, platformVars, cardVars, mounted, startsLeft, recVars>>

\* the API key becomes available
ConfigureKey ==
    /\ ~MicrotaskPending
    /\ ~apiKey
    /\ apiKey' = TRUE
    /\ returnedEarly' = FALSE
    /\ UNCHANGED <<appVars, now, platformVars, cardVars, mounted, startsLeft, recVars>>

(***************************************************************************)
(* AudioRecorder.  Each invocation of startRecording is an entry of recs   *)
(* and goes through the phases asking (getUserMedia pending), denied       *)
(* (getUserMedia rejected), failed (a later setup step threw) or           *)
(* recording, stopping (stop() called, stop event pending), reading (file  *)
(* reader at work) and done (onRecordingComplete called).  The entry also  *)
(* holds what the invocation acquired: the tracks of its stream, its       *)
(* AudioContext and how often close() was called on it, whether its draw   *)
(* loop has a frame callback pending, whether its interval is scheduled,   *)
(* the mimeType of its MediaRecorder, and how often it called              *)
(* onRecordingComplete.                                                     *)
(***************************************************************************)
NewRecording(cap) ==
    [phase |-> "asking", cap |-> cap, tracks |-> "none", ctx |-> "none", closes |-> 0,
     loop |-> FALSE, interval |-> FALSE, mime |-> "", blob |-> << >>, completions |-> 0]

\* stream.getTracks().forEach(track => track.stop()), for the stream of invocation k
stopTracks(rs, k) == [rs EXCEPT ![k].tracks = "stopped"]

\* audioContextRef.current.close(), when the ref holds the context of invocation a
close(rs, a) ==
    IF a = 0 THEN rs
    ELSE [rs EXCEPT ![a].ctx = "closed", ![a].closes = @ + 1]

\* cancelAnimationFrame(animationFrameRef.current), when the ref holds a frame
\* id of the draw loop of invocation f
cancelAnimationFrame(rs, f) ==
    IF f = 0 THEN rs
    ELSE [rs EXCEPT ![f].loop = FALSE]

\* clearInterval(timerRef.current), when the ref holds the interval of invocation t
clearInterval(rs, t) ==
    IF t = 0 THEN rs
    ELSE [rs EXCEPT ![t].interval = FALSE]

\* canvasRef.current is set: the canvas is rendered only while isRecording
canvasMounted == mounted /\ isRecording

\* startRecording up to its await of getUserMedia; the closure keeps the
\* onRecordingComplete of the render it was made in
startRecording ==
    /\ recs' = Append(recs, NewRecording(status = RECORDING))
    /\ UNCHANGED <<isRecording, mediaRecorderRef, audioContextRef, animationFrameRef, timerRef,
                   chunksRef, emitted>>

\* startRecording after getUserMedia resolved, for invocation k: the audio
\* context and analyser, drawVisualizer (which returns at once without a
\* canvas), the MediaRecorder and its start, the state update, the interval
startRecordingGranted(k) ==
    /\ recs' = [recs EXCEPT ![k] = [@ EXCEPT !.phase = "recording",
                                              !.tracks = "live",
                                              !.ctx = "open",
                                              !.loop = canvasMounted,
                                              !.interval = TRUE,
                                              !.mime = recorderType]]
    /\ audioContextRef' = k
    /\ animationFrameRef' = IF canvasMounted THEN k ELSE animationFrameRef
    /\ mediaRecorderRef' = k
    /\ isRecording' = (mounted \/ isRecording)
    /\ timerRef' = k
    /\ chunksRef' = << >>
    /\ UNCHANGED emitted

\* startRecording after getUserMedia resolved when the construction of the
\* MediaRecorder throws: what came before it is done, then the catch block
startRecordingThrows(k) ==
    /\ recs' = [recs EXCEPT ![k] = [@ EXCEPT !.phase = "failed",
                                              !.tracks = "live",
                                              !.ctx = "open",
                                              !.loop = canvasMounted]]
    /\ audioContextRef' = k
    /\ animationFrameRef' = IF canvasMounted THEN k ELSE animationFrameRef
    /\ UNCHANGED <<isRecording, mediaRecorderRef, timerRef, chunksRef, emitted>>

\* startRecording's catch block when getUserMedia rejected, for invocation k
startRecordingFailed(k) ==
    /\ recs' = [recs EXCEPT ![k].phase = "denied"]
    /\ UNCHANGED <<isRecording, mediaRecorderRef, audioContextRef, animationFrameRef, timerRef,
                   chunksRef, emitted>>

\* stopRecording; stop() on a recorder that is not recording throws and
\* nothing after it runs
stopRecording ==
    IF mediaRecorderRef # 0 /\ isRecording
    THEN IF recs[mediaRecorderRef].phase = "recording"
         THEN /\ recs' = clearInterval([recs EXCEPT ![mediaRecorderRef].phase = "stopping"],
                                       timerRef)
              /\ isRecording' = FALSE
              /\ timerRef' = 0
              /\ UNCHANGED <<mediaRecorderRef, audioContextRef, animationFrameRef, chunksRef, emitted>>
         ELSE UNCHANGED recVars
    ELSE UNCHANGED recVars

\* the sizes of the data a recorder may deliver: nothing, or something
NoData == 0
SomeData == 1

\* the data recorder k delivers
Chunk(k, size) == [rec |-> k, size |-> size]

\* mediaRecorder.ondataavailable: data that is not empty goes to the list
\* chunksRef holds now
ondataavailable(data) ==
    /\ chunksRef' = IF data.size > 0 THEN Append(chunksRef, data) ELSE chunksRef
    /\ emitted' = IF data.size > 0 THEN emitted \cup {data} ELSE emitted

\* a slip: the stop handler releases everything and never reads the blob
onstopNoRead(k) ==
    /\ recs' = cancelAnimationFrame(
                   close(stopTracks([recs EXCEPT ![k].phase = "done"], k),
                         audioContextRef),
                   animationFrameRef)
    /\ UNCHANGED <<isRecording, mediaRecorderRef, audioContextRef, animationFrameRef, timerRef>>

\* mediaRecorder.onstop of invocation k: the blob is built from the list
\* chunksRef holds now and goes to the file reader,
\* the tracks of this invocation's stream are stopped, the context and the
\* frame id the refs hold now are closed and cancelled
onstop(k) ==
    /\ recs' = cancelAnimationFrame(
                   close(stopTracks([recs EXCEPT ![k].phase = "reading",
                                                ![k].blob = chunksRef'], k),
                         audioContextRef),
                   animationFrameRef)
    /\ UNCHANGED <<isRecording, mediaRecorderRef, audioContextRef, animationFrameRef, timerRef>>

\* handleAudioComplete up to its await
handleAudioComplete(base64Data, mimeType, cap) ==
    processInput(AudioInput(base64Data, mimeType), cap)

\* reader.onloadend of invocation k: blob.type is the type the Blob was built with
onloadend(k) ==
    /\ recs' = [recs EXCEPT ![k].phase = "done", ![k].completions = @ + 1]
    /\ handleAudioComplete(k, WebmType, recs[k].cap)
    /\ UNCHANGED <<isRecording, mediaRecorderRef, audioContextRef, animationFrameRef, timerRef,
                   chunksRef, emitted, textInput>>

\* the cleanup of the effect, run when the component is discarded
cleanup ==
    /\ recs' = close(cancelAnimationFrame(clearInterval(recs, timerRef), animationFrameRef),
                     audioContextRef)
    /\ UNCHANGED <<isRecording, mediaRecorderRef, audioContextRef, animationFrameRef, timerRef,
                   chunksRef, emitted>>

\* a slip: the recorder is never told that a call is being processed
isProcessingNever == FALSE

\* the isProcessing prop the orchestrator gives the recorder
isProcessing == status = PROCESSING

\* the record button: disabled while isProcessing, and it starts or stops
\* according to isRecording
ClickRecord ==
    /\ ~MicrotaskPending
    /\ mounted
    /\ ~isProcessing
    /\ IF isRecording
       THEN stopRecording /\ UNCHANGED startsLeft
       ELSE /\ startsLeft > 0
            /\ RoomForCall
            /\ startRecording
            /\ startsLeft' = startsLeft - 1
    /\ returnedEarly' = FALSE
    /\ UNCHANGED <<appVars, now, apiKey, platformVars, cardVars, mounted>>

GetUserMediaResolves ==
    /\ ~MicrotaskPending
    /\ \E k \in 1..Len(recs) : recs[k].phase = "asking" /\ startRecordingGranted(k)
    /\ returnedEarly' = FALSE
    /\ UNCHANGED <<appVars, envVars>>

\* getUserMedia resolves and a later step of the setup throws
SetupThrows ==
    /\ ~MicrotaskPending
    /\ \E k \in 1..Len(recs) : recs[k].phase = "asking" /\ startRecordingThrows(k)
    /\ returnedEarly' = FALSE
    /\ UNCHANGED <<appVars, envVars>>

GetUserMediaRejects ==
    /\ ~MicrotaskPending
    /\ \E k \in 1..Len(recs) : recs[k].phase = "asking" /\ startRecordingFailed(k)
    /\ returnedEarly' = FALSE
    /\ UNCHANGED <<appVars, envVars>>

\* a stopped recorder delivers what it recorded as one chunk and its stop
\* event follows in the same task
RecorderStops ==
    /\ ~MicrotaskPending
    /\ \E k \in 1..Len(recs) :
          /\ recs[k].phase = "stopping"
          /\ ondataavailable(Chunk(k, SomeData))
          /\ onstop(k)
    /\ returnedEarly' = FALSE
    /\ UNCHANGED <<appVars, envVars>>

\* a recorder stopped before it has encoded anything: the chunk it delivers
\* is empty
RecorderStopsEmpty ==
    /\ ~MicrotaskPending
    /\ \E k \in 1..Len(recs) :
          /\ recs[k].phase = "stopping"
          /\ ondataavailable(Chunk(k, NoData))
          /\ onstop(k)
    /\ returnedEarly' = FALSE
    /\ UNCHANGED <<appVars, envVars>>

\* the file reader has read the blob
ReaderLoadEnds ==
    /\ ~MicrotaskPending
    /\ \E k \in 1..Len(recs) : recs[k].phase = "reading" /\ onloadend(k)
    /\ returnedEarly' = FALSE
    /\ UNCHANGED envVars

\* the component tree is discarded; what is pending still runs afterwards
Unmount ==
    /\ ~MicrotaskPending
    /\ mounted
    /\ cleanup
    /\ mounted' = FALSE
    /\ returnedEarly' = FALSE
    /\ UNCHANGED <<appVars, now, apiKey, platformVars, cardVars, startsLeft>>

Next ==
    \/ ChangeText
    \/ SubmitText
    \/ SubmitBlank
    \/ CallSettles
    \/ ResetFires
    \/ Tick
    \/ ConfigureKey
    \/ ClickRecord
    \/ GetUserMediaResolves
    \/ GetUserMediaRejects
    \/ RecorderStops
    \/ ReaderLoadEnds

\* the steps of Next, and those of a platform on which the setup of a
\* recording can throw, of a recording stopped before there is data, and of
\* a page that can be discarded
NextRecorder ==
    \/ Next
    \/ SetupThrows
    \/ RecorderStopsEmpty
    \/ Unmount

Spec == Init /\ [][Next]_vars

SpecAnyBody == InitAnyBody /\ [][Next]_vars

\* the recorder's whole life: any platform recorder, a second recording,
\* a setup that throws, the component discarded
SpecRecorder == InitRecorder /\ [][NextRecorder]_vars

\* the specification with the scheduling the browser guarantees: a timer that
\* is due fires, and a microtask that is queued runs
MicrotaskRuns == MicrotaskPending /\ CallSettles
LiveSpec == Spec /\ WF_vars(ResetFires) /\ WF_vars(MicrotaskRuns)

\* the specification with the events the browser guarantees for a stopped
\* recorder: its stop event is dispatched and the file reader finishes
LiveSpecRecorder ==
    /\ Spec
    /\ WF_vars(MicrotaskRuns)
    /\ WF_vars(RecorderStops)
    /\ WF_vars(ReaderLoadEnds)

(***************************************************************************)
(* ReminderCard.  confidence_score is kept in hundredths.                   *)
(***************************************************************************)
Hundredths == 100
HalfConfidence == 50

Scores == {-10, 0, 25, 49, 50, 51, 75, 100, 150}
ScheduledTimes == {"", "2024-01-02T17:00:00Z", "tomorrow"}
Contents == {"", "call mom"}

\* the ReminderData a card may be given
CardInputs ==
    [reminder_content : Contents, scheduled_time : ScheduledTimes, confidence_score : Scores]

\* a slip: the threshold itself does not count as valid
isValidAbove(data) ==
    data.confidence_score > HalfConfidence /\ data.scheduled_time # ""

isValid(data) ==
    data.confidence_score >= HalfConfidence /\ data.scheduled_time # ""

\* new Date(scheduled_time).toLocaleString(...)
toLocaleString(scheduled_time) ==
    IF scheduled_time = "2024-01-02T17:00:00Z" THEN "Tuesday, January 2, 2024 at 5:00 PM"
    ELSE "Invalid Date"

\* what ReminderCard shows for data: the status badge and the time
ReminderCard(data) ==
    [badge |-> IF isValid(data) THEN "Scheduled" ELSE "Failed",
     formattedDate |-> IF isValid(data) THEN toLocaleString(data.scheduled_time) ELSE "N/A"]

\* a card is given any ReminderData
InitCard ==
    /\ InitApp
    /\ schemaKept = TRUE
    /\ recorderType = WebmType
    /\ startsLeft = MaxStarts
    /\ card \in CardInputs
    /\ rendered = NotRendered

RenderCard ==
    /\ rendered' = ReminderCard(card)
    /\ UNCHANGED <<card, appVars, recVars, now, apiKey, platformVars, mounted, startsLeft,
                   returnedEarly>>

SpecCard == InitCard /\ [][RenderCard]_vars

(***************************************************************************)
(* Claims.                                                                  *)
(***************************************************************************)


IsSuffix(s, t) == Len(s) <= Len(t) /\ SubSeq(t, Len(t) - Len(s) + 1, Len(t)) = s

\* a submit event handled by handleTextSubmit
SubmitEvent == SubmitText \/ SubmitBlank

\* C1: a submit event whose text is empty or only whitespace starts no call,
\* adds no history item and leaves status, error message and text input as
\* they were, in whatever state it arrives.
C1_BlankSubmitChangesNothing ==
    [][(SubmitEvent /\ trim(textInput) = EmptyText) =>
          /\ calls' = calls /\ nCalls' = nCalls
          /\ history' = history
          /\ status' = status /\ errorMsg' = errorMsg /\ textInput' = textInput
          /\ timers' = timers]_vars

C1_Witness ==
    /\ returnedEarly
    /\ textInput = <<" ">>
    /\ status = PROCESSING
    /\ calls # << >>

\* the step in which call i settles with the provider's answer resp and parseInput throws
Fails(i, resp) == Settle(i, resp) /\ ~parseInput(calls[i].input, calls[i].key, resp).ok

\* the step in which call i settles with the provider's answer resp and parseInput returns
Succeeds(i, resp) == Settle(i, resp) /\ parseInput(calls[i].input, calls[i].key, resp).ok

\* C2: when a call fails, in that step status becomes ERROR, the error
\* message becomes non-null and history stays exactly what it was.
C2_FailureSetsError ==
    [][\A i \in InFlight : \A resp \in Responses :
          Fails(i, resp) =>
              /\ status' = ERROR
              /\ errorMsg' # Null
              /\ history' = history]_vars

C2_Witness ==
    /\ status = ERROR
    /\ errorMsg = ErrorText
    /\ history # << >>
    /\ Len(timers) = nCalls
    /\ calls = << >>

ClaimedEdges ==
    { <<IDLE, PROCESSING>>, <<PROCESSING, SUCCESS>>, <<PROCESSING, ERROR>>,
      <<SUCCESS, IDLE>>, <<ERROR, IDLE>> }

\* status says what is outstanding: PROCESSING with a call in flight, SUCCESS
\* or ERROR with a reset pending, IDLE with neither
StatusAgrees ==
    /\ status = PROCESSING <=> calls # << >>
    /\ status \in {SUCCESS, ERROR} <=> (calls = << >> /\ timers # << >>)

\* C3 as claimed: status changes only along the five edges.
C3_OnlyClaimedEdges ==
    [][status' # status => <<status, status'>> \in ClaimedEdges]_vars

\* C3 as amended: status never becomes RECORDING; it becomes PROCESSING only
\* when processInput starts, SUCCESS or ERROR only when a call settles, IDLE
\* only when a delayed reset fires; and the steps taken while at most one call
\* or reset is outstanding, before and after, follow the five edges.
C3_StatusChangesByEvent ==
    [][status' # status =>
          /\ status' # RECORDING
          /\ status' = PROCESSING => (SubmitText \/ ReaderLoadEnds)
          /\ status' \in {SUCCESS, ERROR} => CallSettles
          /\ status' = IDLE => ResetFires
          /\ (/\ StatusAgrees
              /\ Len(calls) + Len(timers) <= 1
              /\ Len(calls') + Len(timers') <= 1) => <<status, status'>> \in ClaimedEdges]_vars

C3_Witness ==
    /\ status = IDLE
    /\ calls = << >>
    /\ timers = << >>
    /\ Len(history) = 1
    /\ nCalls = 2

\* C4 as claimed: at most one call awaits parseInput.
C4_AtMostOneInFlight == Len(calls) <= 1

\* a text submission is accepted
TextAccepted == nCalls' = nCalls + 1 /\ calls'[Len(calls')].input.kind = "string"

\* a press of the record button is accepted, to start or to stop
RecordAccepted == Len(recs') = Len(recs) + 1 \/ (isRecording /\ ~isRecording')

\* C4 as amended: a text submission or a press of the record button is
\* accepted only while status is not PROCESSING; calls started by a recording
\* that completes, or after a stale reset, are not held back by this.
C4_ControlsDisabledWhileProcessing ==
    [][(TextAccepted \/ RecordAccepted) => status # PROCESSING]_vars

C4_Witness ==
    /\ Len(calls) = 2
    /\ calls[1].input.kind = "string"
    /\ calls[2].input.kind = "object"
    /\ status = PROCESSING

\* C5: a scheduled reset is never cancelled (the pending resets only grow at
\* the end and shrink at the front, by firing), and firing sets status to IDLE
\* whatever is in flight; so a reset of an earlier call can fire while a newer
\* call is in flight (the witness).
C5_ResetUnconditional ==
    [][/\ timers' # timers =>
            \/ \E cap \in BOOLEAN : timers' = Append(timers, cap)
            \/ timers # << >> /\ timers' = Tail(timers) /\ status' = IDLE
       /\ ResetFires => status' = IDLE]_vars

C5_Witness ==
    /\ status = IDLE
    /\ calls # << >>
    /\ SubmitEnabled

\* C6: after every outcome status returns to IDLE, and no step removes or
\* changes what history held.
C6_ReturnsToIdle ==
    /\ (status \in {SUCCESS, ERROR}) ~> (status = IDLE)
    /\ [][IsSuffix(history, history')]_vars

C6_Witness ==
    /\ status = IDLE
    /\ errorMsg = ErrorText
    /\ history # << >>
    /\ timers = << >>
    /\ calls = << >>
    /\ nCalls = 2

\* C7: every step leaves history as it is or puts one item in front of it, the
\* latter exactly in the steps in which a call returns successfully; and the
\* length of history is the number of calls that returned successfully.
C7_AppendOnly ==
    /\ [](Len(history) = NumOk)
    /\ [][/\ history' = history \/ (history' # << >> /\ Tail(history') = history)
          /\ history' # history <=>
                \E i \in InFlight : \E resp \in Responses : Succeeds(i, resp)]_vars

C7_Witness ==
    /\ Len(history) = 2
    /\ nCalls = 2

\* the invocation that created item x, on a platform with crypto.randomUUID
InvocationOf(x) == okOrder[Len(okOrder) - x.id.n + 1]

\* C8: history is newest first: creation times never increase along it, the
\* k-th item created is the k-th from the end, and when the calls were made
\* one after another history is in the reverse of the order of invocation.
C8_NewestFirst ==
    /\ \A j \in 1..(Len(history) - 1) : history[j].createdAt >= history[j + 1].createdAt
    /\ hasRandomUUID =>
          /\ \A j \in 1..Len(history) : history[j].id.n = Len(history) - j + 1
          /\ (~overlapped /\ Len(okOrder) = Len(history)) =>
                \A j \in 1..Len(history) : \A k \in 1..Len(history) :
                    j < k => InvocationOf(history[j]) > InvocationOf(history[k])

C8_Witness ==
    /\ Len(history) = 2
    /\ ~overlapped
    /\ hasRandomUUID
    /\ history[1].createdAt > history[2].createdAt
    /\ history[1].originalInput # history[2].originalInput
    /\ InvocationOf(history[1]) = 2

\* C9: no two items of history have the same id.
C9_IdsUnique ==
    \A j \in 1..Len(history) : \A k \in 1..Len(history) :
        j # k => history[j].id # history[k].id

\* what originalInput is to be for a call's input
ExpectedOriginal(input) == IF input.kind = "string" THEN input.text ELSE Placeholder

\* C10: the item a successful call creates carries the text that was
\* submitted, untrimmed, for a text call and the placeholder for an audio call.
C10_OriginalInput ==
    [][\A i \in InFlight : \A resp \in Responses :
          Succeeds(i, resp) =>
              /\ history' # << >>
              /\ history'[1].originalInput = ExpectedOriginal(calls[i].input)]_vars

C10_Witness ==
    /\ Len(history) = 2
    /\ history[1].originalInput = <<" ", "a", " ">>
    /\ history[2].originalInput = Placeholder
    /\ overlapped


\* the three fields the response schema requires
RequiredFields == {"reminder_content", "scheduled_time", "confidence_score"}

\* a response body that is empty, is not JSON, or is JSON lacking a required field
Malformed(resp) ==
    \/ resp.kind \in {"empty", "notJSON"}
    \/ resp.kind = "json" /\ ~(RequiredFields \subseteq DOMAIN resp.obj)

\* C11: a call that settles with a malformed response body fails: status
\* becomes ERROR and no history item is created from the response.
C11_MalformedResponseFails ==
    [][\A i \in InFlight : \A resp \in Responses :
          (Settle(i, resp) /\ calls[i].key /\ Malformed(resp)) =>
              /\ ~parseInput(calls[i].input, calls[i].key, resp).ok
              /\ status' = ERROR
              /\ history' = history]_vars

\* C12: a call made while no API key is configured fails before a request
\* is sent, whatever its input; its failure is the next thing to happen and
\* ends in ERROR with history as it was; a call made with a key and answered
\* with a reminder succeeds whatever failed before it.
C12_MissingKeyFailsUnsent ==
    [][/\ \A i \in InFlight : \A resp \in Responses :
             Settle(i, resp) =>
                 IF ~calls[i].key
                 THEN /\ ~parseInput(calls[i].input, calls[i].key, resp).sent
                      /\ ~parseInput(calls[i].input, calls[i].key, resp).ok
                      /\ status' = ERROR
                      /\ errorMsg' = ErrorText
                      /\ history' = history
                 ELSE (resp.kind = "json" /\ resp.obj = GoodObject) =>
                      /\ parseInput(calls[i].input, calls[i].key, resp).sent
                      /\ status' = SUCCESS
                      /\ Len(history') = Len(history) + 1
       /\ MicrotaskPending => (status' = ERROR /\ Len(calls') = Len(calls) - 1)]_vars

\* a text call and an audio call have both failed for want of a key
C12_Witness ==
    /\ ~apiKey
    /\ nCalls = 2
    /\ calls = << >>
    /\ status = ERROR
    /\ history = << >>
    /\ Len(recs) = 1 /\ recs[1].phase = "done"

Recordings == 1..Len(recs)

\* the recordings that were stopped and whose stop handler has run
Stopped == { k \in Recordings : recs[k].phase \in {"reading", "done"} }

\* C13: once a recording has been stopped and its stop handler has run, the
\* tracks of its stream are stopped, the audio context made for it is closed
\* and its draw loop has no frame callback pending.
C13_StopReleasesAll ==
    \A k \in Stopped :
        /\ recs[k].tracks = "stopped"
        /\ recs[k].ctx = "closed"
        /\ ~recs[k].loop

\* C14: once the component is discarded no track is live, no audio context
\* is open, none was closed twice, and no frame callback or interval is
\* scheduled.
C14_DiscardReleasesAll ==
    ~mounted =>
        \A k \in Recordings :
            /\ recs[k].tracks # "live"
            /\ recs[k].ctx # "open"
            /\ recs[k].closes <= 1
            /\ ~recs[k].loop
            /\ ~recs[k].interval

\* C15: onRecordingComplete is called at most once for a recording, only by
\* a recording that was stopped and whose stop handler has run, and every
\* recording that is stopped comes to call it.
C15_CompleteOncePerStop ==
    /\ [](\A k \in Recordings :
             /\ recs[k].completions <= 1
             /\ recs[k].completions = 1 <=> recs[k].phase = "done")
    /\ [][\A k \in Recordings :
             recs'[k].completions # recs[k].completions => recs[k].phase = "reading"]_vars
    /\ \A k \in 1..MaxStarts :
           (k \in Recordings /\ recs[k].phase = "stopping")
               ~> (k \in Recordings /\ recs[k].completions = 1)

C15_Witness ==
    /\ Len(recs) = 1
    /\ recs[1].phase = "done"
    /\ recs[1].completions = 1
    /\ \E i \in InFlight : calls[i].input.kind = "object"

\* the audio calls in flight
AudioCalls == { i \in InFlight : calls[i].input.kind = "object" }

\* C16: the MIME type handed on with a recording's audio is the type the
\* platform's recorder of that recording reported.
C16_MimeTypeIsRecorders ==
    \A i \in AudioCalls : calls[i].input.mimeType = recs[calls[i].input.data].mime

\* the invocations of startRecording that are pending or recording
Started == { k \in Recordings : recs[k].phase \in {"asking", "recording"} }

\* C17: at most one start is pending or recording, at most one stream is
\* live, and the recorder of every recording under way is the one
\* stopRecording would stop.
C17_OneStreamAtATime ==
    /\ Cardinality(Started) <= 1
    /\ Cardinality({ k \in Recordings : recs[k].tracks = "live" }) <= 1
    /\ \A k \in Recordings : recs[k].phase = "recording" => mediaRecorderRef = k

\* the invocations of startRecording that failed
FailedStarts == { k \in Recordings : recs[k].phase \in {"denied", "failed"} }

\* C18: a start that failed holds no stream, no audio context, no draw loop
\* and no interval, and it has not put the recorder in the recording state.
C18_FailedStartHoldsNothing ==
    \A k \in FailedStarts :
        /\ recs[k].tracks # "live"
        /\ recs[k].ctx # "open"
        /\ ~recs[k].loop
        /\ ~recs[k].interval
        /\ mediaRecorderRef # k

\* C20: while a recording is active its draw loop has a frame callback scheduled.
C20_LoopRunsWhileRecording ==
    \A k \in Recordings : recs[k].phase = "recording" => recs[k].loop

\* C19: a rendered card shows its data as valid exactly when scheduled_time
\* is not empty and confidence_score is at least one half; with an empty
\* scheduled_time it shows it as invalid whatever the score.
C19_ValidIffTimeAndScore ==
    rendered # NotRendered =>
        /\ rendered.badge = "Scheduled" <=>
               (card.scheduled_time # "" /\ 2 * card.confidence_score >= Hundredths)
        /\ rendered.badge \in {"Scheduled", "Failed"}
        /\ card.scheduled_time = "" =>
               (rendered.badge = "Failed" /\ rendered.formattedDate = "N/A")

\* an empty scheduled_time with a score above 1 has been shown as invalid
C19_Witness ==
    /\ rendered.badge = "Failed"
    /\ card.scheduled_time = ""
    /\ card.confidence_score > Hundredths

\* C21: the blob built for a stopped recording holds the non-empty chunks its
\* own recorder delivered, all of them and no chunk of another recorder.
C21_PayloadIsOwnChunks ==
    \A k \in Stopped :
        /\ \A j \in 1..Len(recs[k].blob) : recs[k].blob[j].rec = k
        /\ \A c \in emitted : c.rec = k => \E j \in 1..Len(recs[k].blob) : recs[k].blob[j] = c
        /\ Len(recs[k].blob) = Cardinality({ c \in emitted : c.rec = k })

\* C22 as claimed: while a call is pending status is PROCESSING.
C22_ProcessingWhilePending ==
    calls # << >> => status = PROCESSING

\* C22 as amended: while status is PROCESSING and a call is pending, every
\* step in which no reset fires and no call settles leaves status PROCESSING
\* and the calls pending, adds no history item and accepts neither a text
\* submission nor the start of a recording.
C22_PendingCallKeepsProcessing ==
    [][(status = PROCESSING /\ calls # << >> /\ timers' = timers) =>
          /\ status' = PROCESSING
          /\ history' = history
          /\ Len(calls') >= Len(calls)
          /\ ~TextAccepted
          /\ Len(recs') = Len(recs)]_vars

\* a call is pending in PROCESSING with the reset of an earlier call still
\* scheduled, and a blank submit has just been turned away
C22_Witness ==
    /\ status = PROCESSING
    /\ Len(calls) = 1
    /\ nCalls = 2
    /\ Len(timers) = 1
    /\ returnedEarly

\* C23: the error message is non-null only from a failed call's completion
\* to the start of the next submission: with it showing, status is ERROR or
\* the IDLE that follows it, and with status SUCCESS it is null.
C23_ErrorMsgAgrees ==
    /\ status = SUCCESS => errorMsg = Null
    /\ errorMsg # Null => status \in {ERROR, IDLE}

TypeOK ==
    /\ status \in ParseStatus
    /\ textInput \in TextInputs
    /\ errorMsg \in {Null, ErrorText}
    /\ nCalls <= MaxCalls
    /\ now \in 0..MaxNow

=============================================================================
